---- MODULE Spec2Model ----
(***************************************************************************)
(* Model of the natural-language-to-SQL pipeline of ai-analytics-agent:    *)
(*   - AIService.generate_query        (app/services/ai_service.py)        *)
(*   - AIService.query_model           (app/services/trino_service.py)     *)
(*   - MemoryService                   (app/services/memory_service.py)    *)
(*   - AIService.analyze_results       (app/services/ai_service.py)        *)
(*   - SchemaService                   (app/services/schema_service.py)    *)
(*                                                                         *)
(* Text is modelled as a sequence of characters (one-character strings),   *)
(* so that strip(), startswith(), endswith(), slicing and the test for ':' *)
(* are computed as Python computes them.  " " stands for any whitespace    *)
(* character.  Fixed message texts are kept as one-element sequences.      *)
(***************************************************************************)
EXTENDS Integers, Sequences, FiniteSets, TLC

VARIABLES
    rawInput,               \* sanitizer harness: a raw model output
    cleaned,                \* sanitizer harness: result of the clean-up step
    ollamaUp,               \* environment: does GET /api/tags answer 200
    genCalls,               \* number of generate_query and analyze_results calls made so far
    ollamaAtCall,           \* last AIService call: was the model endpoint up when it was called
    modelCalls,             \* last AIService call: raw text returned by each query_model call
    engineCalls,            \* last AIService call: statements passed to execute_query
    engineResults,          \* last AIService call: outcome of each execute_query call
    memLookups,             \* last AIService call: each memory lookup (did the store fail, the context built)
    memWrites,              \* last AIService call: arguments of each store_conversation call
    returned,               \* last AIService call: the returned string (<<>> before any call)
    outcome,                \* last AIService call: which return statement was taken
    collection,             \* MemoryService.collection: the stored records
    memory_count,           \* MemoryService.memory_count
    producedIds,            \* the ids store_conversation has produced so far
    memOp,                  \* last memory operation and its result
    schema_cache,           \* SchemaService.schema_cache
    schema_cache_timestamp, \* SchemaService.schema_cache_timestamp
    now,                    \* the clock read by time.time()
    schemaOp,               \* last get_database_schema call and its result
    threads,                \* overlapping get_database_schema calls: position and locals of each
    abandonedAt,            \* environment: the call of the retry loop during which the caller goes away (0: it stays)
    analysis_context,       \* AIService.analysis_context
    sessions,               \* callers of the multi-turn path: where each stands in its conversation
    turnOp,                 \* last analyze_with_context or continue_analysis call and its result
    apiOp,                  \* last POST /analyze request and its result
    permOp,                 \* last check_permission call and its result
    cleaner                 \* an overlapping cleanup_old_memories call: where it stands

vars == <<rawInput, cleaned, ollamaUp, genCalls, ollamaAtCall, modelCalls, engineCalls,
          engineResults, memLookups, memWrites, returned, outcome,
          collection, memory_count, producedIds, memOp,
          schema_cache, schema_cache_timestamp, now, schemaOp, threads,
          abandonedAt, analysis_context, sessions, turnOp, apiOp, permOp, cleaner>>

sanVars == <<rawInput, cleaned>>
turnVars == <<analysis_context, sessions, turnOp>>
apiVars == <<apiOp, permOp>>
callVars == <<abandonedAt, turnVars, apiVars, cleaner>>
genVars == <<ollamaUp, genCalls, ollamaAtCall, modelCalls, engineCalls, engineResults,
             memLookups, memWrites, returned, outcome>>
memVars == <<collection, memory_count, producedIds, memOp>>
schemaVars == <<schema_cache, schema_cache_timestamp, schemaOp, threads>>

(***************************************************************************)
(* Bounds of the model.                                                    *)
(***************************************************************************)
MaxLen == 3          \* longest free-form text fed to the sanitizer harness
MaxGenCalls == 1     \* generate_query and analyze_results calls per behaviour
MaxRecords == 2      \* records the memory collection may hold
MaxK == 3            \* largest n_results asked of get_relevant_memories
MaxTime == 2         \* the clock of the memory store stops advancing here
MaxFailures == 1     \* engine statements that may fail during one refresh
MaxAbandon == 2      \* latest call of the retry loop during which the caller may go away
MaxClock == 5        \* the clock of the schema cache stops advancing here

(***************************************************************************)
(* Text helpers: Python str methods on character sequences.                *)
(***************************************************************************)
WS == " "
\* BT stands for the backtick character
BT == "#"
Alphabet == {BT, "s", "q", "l", WS, ":", "x"}

FenceOpen == <<BT, BT, BT, "s", "q", "l">>
FenceClose == <<BT, BT, BT>>

\* s.startswith(p)
StartsWith(s, p) == Len(s) >= Len(p) /\ SubSeq(s, 1, Len(p)) = p

\* s.endswith(p)
EndsWith(s, p) == Len(s) >= Len(p) /\ SubSeq(s, Len(s) - Len(p) + 1, Len(s)) = p

\* s.lstrip() / s.rstrip() / s.strip()
RECURSIVE LStrip(_)
LStrip(s) == IF s # <<>> /\ Head(s) = WS THEN LStrip(Tail(s)) ELSE s

RECURSIVE RStrip(_)
RStrip(s) == IF s # <<>> /\ s[Len(s)] = WS THEN RStrip(SubSeq(s, 1, Len(s) - 1)) ELSE s

Strip(s) == RStrip(LStrip(s))

\* c in s
Contains(s, c) == \E i \in 1..Len(s) : s[i] = c

\* p in s, for a multi-character p
ContainsSeq(s, p) == \E i \in 1..(Len(s) - Len(p) + 1) : SubSeq(s, i, i + Len(p) - 1) = p

\* query[6:] when it starts with the opening fence (three backticks and sql)
StripFenceOpen(q) == IF StartsWith(q, FenceOpen) THEN SubSeq(q, Len(FenceOpen) + 1, Len(q)) ELSE q

\* mutant: the closing fence is cut off without testing for it
StripFenceCloseUnguarded(q) == SubSeq(q, 1, Len(q) - 3)

\* query[:-3] when it ends with the closing fence (three backticks)
StripFenceClose(q) == IF EndsWith(q, FenceClose) THEN SubSeq(q, 1, Len(q) - 3) ELSE q

\* ai_service.py 393-399: the clean-up of the first model output
CleanQuery(raw) == Strip(StripFenceClose(StripFenceOpen(Strip(raw))))

\* mutant: the retry output loses its first six characters without a test
CleanRetryCutting(raw) == Strip(SubSeq(Strip(raw), Len(FenceOpen) + 1, Len(Strip(raw))))

\* ai_service.py 420, 456: the retries only strip whitespace
CleanRetry(raw) == Strip(raw)

\* a string the clean-up step has nothing to do on
IsClean(s) ==
    /\ s = Strip(s)
    /\ ~StartsWith(s, FenceOpen)
    /\ ~EndsWith(s, FenceClose)

(***************************************************************************)
(* Sanitizer harness: the clean-up step applied to arbitrary short texts   *)
(* and to fenced / padded texts.                                           *)
(***************************************************************************)
RECURSIVE TextsOfLen(_)
TextsOfLen(n) ==
    IF n = 0 THEN {<<>>}
    ELSE {Append(t, c) : t \in TextsOfLen(n - 1), c \in Alphabet}

ShortTexts == UNION {TextsOfLen(n) : n \in 0..MaxLen}

Pads == {<<>>, <<WS>>}
Bodies == {<<"x">>, <<"x", ":", "x">>, <<"x", WS, "x">>, <<>>}

FencedTexts ==
    {p1 \o o \o p2 \o b \o p3 \o c \o p4 :
        p1 \in Pads, o \in {<<>>, FenceOpen}, p2 \in Pads, b \in Bodies,
        p3 \in Pads, c \in {<<>>, FenceClose}, p4 \in Pads}

SanInputs == ShortTexts \cup FencedTexts

NoText == <<"<none>">>

SanInit ==
    /\ rawInput \in SanInputs
    /\ cleaned = NoText

Sanitize ==
    /\ cleaned = NoText
    /\ cleaned' = CleanQuery(rawInput)
    /\ UNCHANGED rawInput


(***************************************************************************)
(* Python values that are tested for truth.                                *)
(***************************************************************************)
PyBool(b) == [type |-> "bool", val |-> b]

\* calling an "async def" without await yields a coroutine object
PyCoroutine(v) == [type |-> "coroutine", val |-> v]

\* None, a str and a list; the val of each is a sequence
PyNone == [type |-> "NoneType", val |-> <<>>]
PyStr(text) == [type |-> "str", val |-> text]
PyList(items) == [type |-> "list", val |-> items]

\* bool(v): a bool is itself, None is false, a str or a list is true when
\* it is not empty, any other object (a coroutine) is true
Truthy(v) ==
    IF v.type = "bool" THEN v.val
    ELSE IF v.type = "NoneType" THEN FALSE
    ELSE IF v.type \in {"str", "list"} THEN v.val # <<>>
    ELSE TRUE

(***************************************************************************)
(* Model Client: HTTP answers of the model endpoint and query_model.       *)
(***************************************************************************)
TextX == <<"x">>
TextY == <<"y">>
TextPadded == <<WS, "x", WS>>
TextFenced == FenceOpen \o <<WS, "y", WS>> \o FenceClose
TextColon == <<"x", ":", "y">>

\* SQL with a comment and a statement terminator; each marker is one element
TextMarked == <<"x", "/*", "y", "*/", ";">>

GenTexts == {TextX, TextY, TextPadded, TextFenced, TextColon, TextMarked}

ModelResponses ==
    {[kind |-> "ok", text |-> t] : t \in GenTexts}
        \cup {[kind |-> "status", text |-> <<>>], [kind |-> "exception", text |-> <<>>]}

\* what requests.post may answer now: a connection error while the endpoint is down
ModelAnswers ==
    IF ollamaUp THEN ModelResponses ELSE {[kind |-> "exception", text |-> <<>>]}

\* f"Error: Received status code {response.status_code}"
ErrStatusCode == <<"Error", ":", WS, "Received status code 500">>

\* f"Error querying model: {str(e)}"
ErrQueryingModel == <<"Error querying model", ":", WS, "timeout">>

\* query_model(prompt, prompt_type): the text on 200, an error text otherwise
query_model(resp) ==
    IF resp.kind = "ok" THEN resp.text
    ELSE IF resp.kind = "status" THEN ErrStatusCode
    ELSE ErrQueryingModel

\* the body of the async probe: status_code == 200, False on an exception
check_ollama_availability == PyBool(ollamaUp)

(***************************************************************************)
(* Query Engine Client: execute_query answers rows, an error result, or    *)
(* raises.                                                                 *)
(***************************************************************************)
EngineOutcomes == {"rows", "error", "raise"}

EngineErrorText == <<"line 1", ":", "8", ":", WS, "Column cannot be resolved">>

execute_query(o) ==
    IF o = "error" THEN [kind |-> "error", error |-> EngineErrorText]
    ELSE [kind |-> "rows", error |-> <<>>]

\* "error" in result
HasError(result) == result.kind = "error"

ProbeQuery == <<"SELECT 1">>

\* mutant: the probe's error result is not looked at
check_trino_availability_ignoring_error(o) == o # "raise"

\* check_trino_availability: "error" not in result, False when the probe raises
check_trino_availability(o) ==
    IF o = "raise" THEN FALSE ELSE ~HasError(execute_query(o))

\* f"WITH test_query AS ({query}) SELECT * FROM test_query LIMIT 1"
TestQuery(query) ==
    <<"WITH test_query AS (">> \o query \o <<") SELECT * FROM test_query LIMIT 1">>

(***************************************************************************)
(* The strings generate_query returns on its failure paths.                *)
(***************************************************************************)
OllamaUnavailable == <<"SELECT 'Ollama service is not available' as message">>

TrinoUnavailable ==
    <<"SELECT 'Trino service is not available. Please make sure Trino is running.' as error">>

InvalidCharacters ==
    <<"SELECT 'Invalid query: Query contains unsupported characters' as error">>

InvalidGenerated(err) == <<"SELECT 'Invalid query generated: ">> \o err \o <<"' as error">>

ErrorExecuting == <<"SELECT 'Error executing query: ", "<exception>", "' as error">>


(***************************************************************************)
(* MemoryService.  The collection is a set of records; the id, the         *)
(* serialized metadata and the timestamp are built as the code builds      *)
(* them.  The clock now counts ticks, TicksPerSecond of them to a second:  *)
(* datetime.now() and time.time() see every tick, int(time.time()) only    *)
(* the second.                                                             *)
(***************************************************************************)
Questions == {"total revenue", "top customers"}

\* metadata arguments: None, a dict, or a string that is not JSON
NoMetadata == [kind |-> "none", type |-> "", validation_status |-> ""]
DictMetadata(t, v) == [kind |-> "dict", type |-> t, validation_status |-> v]
StrMetadata == [kind |-> "str", type |-> "", validation_status |-> ""]

\* json.dumps(metadata) for a dict, the value itself otherwise, then: metadata or ""
SerializeMetadata(m) ==
    IF m.kind = "dict" THEN [form |-> "json", type |-> m.type, validation_status |-> m.validation_status]
    ELSE IF m.kind = "str" THEN [form |-> "raw", type |-> "", validation_status |-> ""]
    ELSE [form |-> "empty", type |-> "", validation_status |-> ""]

\* json.loads(meta["metadata"]) raises on a text that is not JSON
LoadsRaises(stored) == stored.form = "raw"

\* json.loads(meta["metadata"]) if meta["metadata"] else None
DeserializeMetadata(stored) ==
    IF stored.form = "json" THEN DictMetadata(stored.type, stored.validation_status)
    ELSE NoMetadata

TicksPerSecond == 3
TicksPerDay == 24 * 60 * 60 * TicksPerSecond

\* int(time.time())
Seconds(t) == t \div TicksPerSecond

\* f"conv_{int(time.time())}_{self.memory_count}"
ConversationId == <<Seconds(now), memory_count>>

NoId == <<-1, -1>>

NewRecord(question, response, metadata) ==
    [id |-> ConversationId,
     question |-> question,
     response |-> response,
     metadata |-> SerializeMetadata(metadata),
     timestamp |-> now]

\* collection.add: a record whose id is already present is not added again
CollectionAdd(coll, rec) ==
    IF \E r \in coll : r.id = rec.id THEN coll ELSE coll \cup {rec}

\* _update_memory_stats: collection.count(), 0 when counting raises
UpdateMemoryStats(coll, countOk) == IF countOk THEN Cardinality(coll) ELSE 0

\* store_conversation: the new collection and count, or raised when add fails
StoreConversation(question, response, metadata, addOk, countOk) ==
    IF ~addOk
    THEN [coll |-> collection, count |-> memory_count, raised |-> TRUE, id |-> NoId]
    ELSE LET added == CollectionAdd(collection, NewRecord(question, response, metadata))
         IN [coll |-> added, count |-> UpdateMemoryStats(added, countOk),
             raised |-> FALSE, id |-> ConversationId]

Min(a, b) == IF a < b THEN a ELSE b

\* min(n_results, self.memory_count)
RequestedNeighbours(n_results) == Min(n_results, memory_count)

\* the neighbour sets collection.query may answer for n requested results:
\* it raises (no answer) unless 1 <= n <= number of stored records
QueryAnswers(n) ==
    IF n < 1 \/ n > Cardinality(collection) THEN {}
    ELSE {hits \in SUBSET collection : Cardinality(hits) = n}

\* the records of hits, one after the other (the similarity ranking is not modelled)
RECURSIVE SeqOfSet(_)
SeqOfSet(S) ==
    IF S = {} THEN <<>>
    ELSE LET r == CHOOSE x \in S : \A y \in S : x.id[1] < y.id[1] \/ (x.id[1] = y.id[1] /\ x.id[2] <= y.id[2])
         IN <<r>> \o SeqOfSet(S \ {r})

MemoryOf(r) ==
    [id |-> r.id, question |-> r.question, response |-> r.response,
     metadata |-> DeserializeMetadata(r.metadata), timestamp |-> r.timestamp]

\* the loop of get_relevant_memories: a record whose metadata does not load is skipped
RECURSIVE ToMemories(_)
ToMemories(hits) ==
    IF hits = <<>> THEN <<>>
    ELSE IF LoadsRaises(Head(hits).metadata) THEN ToMemories(Tail(hits))
    ELSE <<MemoryOf(Head(hits))>> \o ToMemories(Tail(hits))

\* does collection.query raise for this call
QueryRaises(n_results, queryOk) ==
    ~queryOk \/ QueryAnswers(RequestedNeighbours(n_results)) = {}

QueryResults(n_results) ==
    {[result |-> ToMemories(SeqOfSet(hits)), raised |-> FALSE] :
        hits \in QueryAnswers(RequestedNeighbours(n_results))}

\* mutant: the exception of collection.query is not caught
get_relevant_memories_uncaught(n_results, queryOk) ==
    IF QueryRaises(n_results, queryOk) THEN {[result |-> <<>>, raised |-> TRUE]}
    ELSE QueryResults(n_results)

\* the outcomes of get_relevant_memories: [] when collection.query raises
get_relevant_memories(n_results, queryOk) ==
    IF QueryRaises(n_results, queryOk) THEN {[result |-> <<>>, raised |-> FALSE]}
    ELSE QueryResults(n_results)

RECURSIVE FormatEntries(_)
FormatEntries(memories) ==
    IF memories = <<>> THEN <<>>
    ELSE LET m == Head(memories)
         IN <<"Question: ", m.question, "Response: ">> \o m.response
              \o (IF m.metadata.kind # "none" THEN <<"Context: ", m.metadata.type>> ELSE <<>>)
              \o <<"Time: ">> \o FormatEntries(Tail(memories))

\* mutant: an empty list is rendered as a placeholder line
format_memories_with_placeholder(memories) ==
    IF memories = <<>> THEN <<"No relevant past conversations">>
    ELSE <<"Relevant past conversations:">> \o FormatEntries(memories)

\* format_memories_for_prompt
format_memories_for_prompt(memories) ==
    IF memories = <<>> THEN <<>>
    ELSE <<"Relevant past conversations:">> \o FormatEntries(memories)


(***************************************************************************)
(* AIService.generate_query (ai_service.py 349-488), one call as one step. *)
(* The answers of the model endpoint and of the engine are inputs, drawn   *)
(* where the code consumes them.                                           *)
(***************************************************************************)
NoRecord == [id |-> NoId, question |-> "", response |-> <<>>,
             metadata |-> SerializeMetadata(NoMetadata), timestamp |-> -1]

\* the last memory operation: its arguments (k), the number of records stored
\* when it was called, its result, and whether every chromadb call made so
\* far has succeeded
NoMemOp == [op |-> "none", k |-> 0, stored |-> 0, count |-> 0, raised |-> FALSE,
            result |-> <<>>, formatted |-> <<>>, id |-> NoId, record |-> NoRecord,
            faultFree |-> TRUE, at |-> 0]

\* mutant: the validation status is computed with the test inverted
GenMetadataInverted(result) ==
    DictMetadata("sql_generation", IF HasError(result) THEN "valid" ELSE "invalid")

\* metadata of the record stored on success (lines 480-485)
GenMetadata(result) ==
    DictMetadata("sql_generation", IF ~HasError(result) THEN "valid" ELSE "invalid")

\* a return statement of generate_query that writes nothing to the memory store
GenReturn(mc, ec, er, ml, ret, oc) ==
    /\ modelCalls' = mc
    /\ engineCalls' = ec
    /\ engineResults' = er
    /\ memLookups' = ml
    /\ memWrites' = <<>>
    /\ returned' = ret
    /\ outcome' = oc
    /\ genCalls' = genCalls + 1
    /\ ollamaAtCall' = ollamaUp
    /\ UNCHANGED <<collection, memory_count, producedIds>>

\* mutant: the query is returned before the conversation is stored
GenReturnWithoutStore(question, ml, mc, ec, er, query, result) ==
    GenReturn(mc, ec, er, ml, query, "success")

\* lines 476-488: store the conversation, then return the query
GenStoreAndReturn(question, ml, mc, ec, er, query, result) ==
    \E addOk \in BOOLEAN, countOk \in BOOLEAN :
        LET st == StoreConversation(question, query, GenMetadata(result), addOk, countOk)
        IN /\ modelCalls' = mc
           /\ engineCalls' = ec
           /\ engineResults' = er
           /\ memLookups' = ml
           /\ memWrites' = <<[question |-> question, response |-> query,
                              metadata |-> GenMetadata(result)]>>
           /\ returned' = IF st.raised THEN NoText ELSE query
           /\ outcome' = IF st.raised THEN "raised" ELSE "success"
           /\ genCalls' = genCalls + 1
           /\ ollamaAtCall' = ollamaUp
           /\ collection' = st.coll
           /\ memory_count' = st.count
           /\ producedIds' = IF st.raised THEN producedIds ELSE producedIds \cup {st.id}

\* mutant: the result of the second test execution is not looked at
GenValidateSecondUnchecked(question, ml, mc, query, probe) ==
    \E e1 \in EngineOutcomes :
        LET ec1 == <<ProbeQuery, TestQuery(query)>>
            er1 == <<probe, e1>>
        IN IF e1 = "raise"
           THEN GenReturn(mc, ec1, er1, ml, ErrorExecuting, "exec_exception")
           ELSE IF HasError(execute_query(e1))
           THEN \E r3 \in ModelAnswers, e2 \in EngineOutcomes :
                    LET raw3 == query_model(r3)
                        query3 == CleanRetry(raw3)
                        mc3 == Append(mc, raw3)
                        ec2 == Append(ec1, TestQuery(query3))
                        er2 == Append(er1, e2)
                    IN IF e2 = "raise"
                       THEN GenReturn(mc3, ec2, er2, ml, ErrorExecuting, "exec_exception")
                       ELSE GenStoreAndReturn(question, ml, mc3, ec2, er2, query3,
                                              execute_query(e2))
           ELSE GenStoreAndReturn(question, ml, mc, ec1, er1, query, execute_query(e1))

\* lines 428-474: the test execution and the retry that follows a failed one
GenValidate(question, ml, mc, query, probe) ==
    \E e1 \in EngineOutcomes :
        LET ec1 == <<ProbeQuery, TestQuery(query)>>
            er1 == <<probe, e1>>
        IN IF e1 = "raise"
           THEN GenReturn(mc, ec1, er1, ml, ErrorExecuting, "exec_exception")
           ELSE IF HasError(execute_query(e1))
           THEN \E r3 \in ModelAnswers, e2 \in EngineOutcomes :
                    LET raw3 == query_model(r3)
                        query3 == CleanRetry(raw3)
                        mc3 == Append(mc, raw3)
                        ec2 == Append(ec1, TestQuery(query3))
                        er2 == Append(er1, e2)
                    IN IF e2 = "raise"
                       THEN GenReturn(mc3, ec2, er2, ml, ErrorExecuting, "exec_exception")
                       ELSE IF HasError(execute_query(e2))
                       THEN GenReturn(mc3, ec2, er2, ml,
                                      InvalidGenerated(execute_query(e2).error), "exec_failed")
                       ELSE GenStoreAndReturn(question, ml, mc3, ec2, er2, query3,
                                              execute_query(e2))
           ELSE GenStoreAndReturn(question, ml, mc, ec1, er1, query, execute_query(e1))

\* mutant: a second ':' is answered by one more model call
GenAttemptsRetryingTwice(question, ml, probe) ==
    \E r1 \in ModelAnswers :
        LET raw1 == query_model(r1)
            query1 == CleanQuery(raw1)
        IN IF Contains(query1, ":")
           THEN \E r2 \in ModelAnswers :
                    LET raw2 == query_model(r2)
                        query2 == CleanRetry(raw2)
                    IN IF Contains(query2, ":")
                       THEN \E r3 \in ModelAnswers :
                                GenValidate(question, ml, <<raw1, raw2, query_model(r3)>>,
                                            CleanRetry(query_model(r3)), probe)
                       ELSE GenValidate(question, ml, <<raw1, raw2>>, query2, probe)
           ELSE GenValidate(question, ml, <<raw1>>, query1, probe)

\* lines 390-426: the first model call, its clean-up, and the retry on ':'
GenAttempts(question, ml, probe) ==
    \E r1 \in ModelAnswers :
        LET raw1 == query_model(r1)
            query1 == CleanQuery(raw1)
        IN IF Contains(query1, ":")
           THEN \E r2 \in ModelAnswers :
                    LET raw2 == query_model(r2)
                        query2 == CleanRetry(raw2)
                    IN IF Contains(query2, ":")
                       THEN GenReturn(<<raw1, raw2>>, <<ProbeQuery>>, <<probe>>, ml,
                                      InvalidCharacters, "invalid_chars")
                       ELSE GenValidate(question, ml, <<raw1, raw2>>, query2, probe)
           ELSE GenValidate(question, ml, <<raw1>>, query1, probe)

\* n_results of the lookup of line 359 (the default of get_relevant_memories)
DefaultResults == 3

generate_query ==
    /\ genCalls < MaxGenCalls
    /\ Cardinality(collection) < MaxRecords
    /\ \E question \in Questions, probe \in EngineOutcomes :
        \* line 351: the async probe is called without await, so the value
        \* tested is the coroutine object
        IF ~Truthy(PyCoroutine(check_ollama_availability))
        THEN GenReturn(<<>>, <<>>, <<>>, <<>>, OllamaUnavailable, "ollama_unavailable")
        ELSE IF ~check_trino_availability(probe)
        THEN GenReturn(<<>>, <<ProbeQuery>>, <<probe>>, <<>>, TrinoUnavailable,
                       "trino_unavailable")
        ELSE \E queryOk \in BOOLEAN :
                 \E memories \in get_relevant_memories(DefaultResults, queryOk) :
                     LET memory_context == format_memories_for_prompt(memories.result)
                     IN IF memories.raised
                        THEN GenReturn(<<>>, <<ProbeQuery>>, <<probe>>, <<>>, NoText, "raised")
                        ELSE GenAttempts(question,
                                         <<[failed |-> QueryRaises(DefaultResults, queryOk),
                                            context |-> memory_context]>>,
                                         probe)
    /\ UNCHANGED <<sanVars, callVars, ollamaUp, memOp, schemaVars, now>>

\* the string analyze_results returns while the model endpoint is taken to be down
AnalysisUnavailable ==
    <<"Ollama service is not available. Please make sure Ollama is running and try again.">>

\* AIService.analyze_results(question, schema_context, results), lines 490-523
analyze_results ==
    /\ genCalls < MaxGenCalls
    /\ Cardinality(collection) < MaxRecords
    /\ \E question \in Questions :
        \* line 492: again the coroutine object is what is tested
        IF ~Truthy(PyCoroutine(check_ollama_availability))
        THEN GenReturn(<<>>, <<>>, <<>>, <<>>, AnalysisUnavailable, "analysis_unavailable")
        ELSE \E queryOk \in BOOLEAN, resp \in ModelAnswers, addOk \in BOOLEAN,
                countOk \in BOOLEAN :
                 \E memories \in get_relevant_memories(DefaultResults, queryOk) :
                     LET memory_context == format_memories_for_prompt(memories.result)
                         analysis == query_model(resp)
                         metadata == DictMetadata("result_analysis", "")
                         st == StoreConversation(question, analysis, metadata, addOk, countOk)
                         raises == st.raised \/ memories.raised
                     IN /\ modelCalls' = <<analysis>>
                        /\ engineCalls' = <<>>
                        /\ engineResults' = <<>>
                        /\ memLookups' = <<[failed |-> QueryRaises(DefaultResults, queryOk),
                                            context |-> memory_context]>>
                        /\ memWrites' = <<[question |-> question, response |-> analysis,
                                           metadata |-> metadata]>>
                        /\ returned' = IF raises THEN NoText ELSE analysis
                        /\ outcome' = IF raises THEN "analysis_raised" ELSE "analysis"
                        /\ genCalls' = genCalls + 1
                        /\ ollamaAtCall' = ollamaUp
                        /\ collection' = st.coll
                        /\ memory_count' = st.count
                        /\ producedIds' = IF st.raised THEN producedIds
                                          ELSE producedIds \cup {st.id}
    /\ UNCHANGED <<sanVars, callVars, ollamaUp, memOp, schemaVars, now>>

\* the model endpoint goes down or comes back
OllamaChanges ==
    /\ ollamaUp' \in BOOLEAN \ {ollamaUp}
    /\ UNCHANGED <<sanVars, callVars, genCalls, ollamaAtCall, modelCalls, engineCalls, engineResults, memLookups,
                   memWrites, returned, outcome, memVars, schemaVars, now>>


(***************************************************************************)
(* MemoryService operations called on their own.                           *)
(***************************************************************************)
StoreResponses == {TextX}
StoreMetadata == {NoMetadata, DictMetadata("result_analysis", ""), StrMetadata}
RetentionDays == {0, 1, 30}

store_conversation ==
    /\ Cardinality(collection) < MaxRecords
    /\ \E question \in Questions, response \in StoreResponses, metadata \in StoreMetadata,
          addOk \in BOOLEAN, countOk \in BOOLEAN :
        LET st == StoreConversation(question, response, metadata, addOk, countOk)
        IN /\ collection' = st.coll
           /\ memory_count' = st.count
           /\ producedIds' = IF st.raised THEN producedIds ELSE producedIds \cup {st.id}
           /\ memOp' = [NoMemOp EXCEPT
                            !.op = "store",
                            !.stored = Cardinality(collection),
                            !.raised = st.raised,
                            !.id = st.id,
                            !.record = IF st.raised THEN NoRecord
                                       ELSE NewRecord(question, response, metadata),
                            !.faultFree = memOp.faultFree /\ addOk /\ countOk]
    /\ UNCHANGED <<sanVars, callVars, genVars, schemaVars, now>>

\* get_relevant_memories(question, n_results) followed by format_memories_for_prompt
recall_memories ==
    /\ \E n_results \in 0..MaxK, queryOk \in BOOLEAN :
        \E r \in get_relevant_memories(n_results, queryOk) :
            memOp' = [NoMemOp EXCEPT
                         !.op = "get",
                         !.k = n_results,
                         !.stored = Cardinality(collection),
                         !.raised = r.raised,
                         !.result = r.result,
                         !.formatted = format_memories_for_prompt(r.result),
                         !.faultFree = memOp.faultFree /\ queryOk]
    /\ UNCHANGED <<sanVars, callVars, genVars, collection, memory_count, producedIds, schemaVars, now>>

\* time.time() - (days_to_keep * 24 * 60 * 60)
CutoffTime(days_to_keep) == now - days_to_keep * TicksPerDay

\* mutant: the record written exactly at the cutoff is selected too
OldMemoriesInclusive(days_to_keep) == {r \in collection : r.timestamp <= CutoffTime(days_to_keep)}

\* where={"timestamp": {"$lt": cutoff}}
OldMemories(days_to_keep) == {r \in collection : r.timestamp < CutoffTime(days_to_keep)}

cleanup_old_memories ==
    /\ \E days_to_keep \in RetentionDays, getOk \in BOOLEAN, deleteOk \in BOOLEAN,
          countOk \in BOOLEAN :
        LET old == OldMemories(days_to_keep)
            kept == collection \ old
            op == [NoMemOp EXCEPT
                      !.op = "cleanup",
                      !.k = days_to_keep,
                      !.stored = Cardinality(collection),
                      !.at = now]
        IN IF ~getOk \/ (old # {} /\ ~deleteOk)
           THEN /\ memOp' = [op EXCEPT !.faultFree = FALSE]
                /\ UNCHANGED <<collection, memory_count>>
           ELSE /\ collection' = kept
                /\ memory_count' = IF old # {} THEN UpdateMemoryStats(kept, countOk)
                                   ELSE memory_count
                /\ memOp' = [op EXCEPT
                                !.count = Cardinality(old),
                                !.faultFree = memOp.faultFree /\ (old = {} \/ countOk)]
    /\ UNCHANGED <<sanVars, callVars, genVars, producedIds, schemaVars, now>>

\* cleanup_old_memories overlapping other calls on the one MemoryService,
\* first half (lines 138-144): the old records are read and deleted; with
\* nothing to delete, or a failing call, the method returns here
CleanupDelete ==
    /\ cleaner = "idle"
    /\ \E days_to_keep \in RetentionDays, getOk \in BOOLEAN, deleteOk \in BOOLEAN :
        LET old == OldMemories(days_to_keep)
            op == [NoMemOp EXCEPT
                      !.op = "cleanup",
                      !.k = days_to_keep,
                      !.stored = Cardinality(collection),
                      !.at = now]
        IN IF ~getOk \/ (old # {} /\ ~deleteOk)
           THEN /\ memOp' = [op EXCEPT !.faultFree = FALSE]
                /\ UNCHANGED <<collection, cleaner>>
           ELSE /\ collection' = collection \ old
                /\ cleaner' = IF old # {} THEN "deleted" ELSE "idle"
                /\ memOp' = [op EXCEPT !.count = Cardinality(old),
                                         !.faultFree = memOp.faultFree]
    /\ UNCHANGED <<sanVars, abandonedAt, turnVars, apiVars, genVars, memory_count, producedIds,
                   schemaVars, now>>

\* second half (line 145): the count is read again
CleanupUpdateStats ==
    /\ cleaner = "deleted"
    /\ \E countOk \in BOOLEAN :
        /\ memory_count' = UpdateMemoryStats(collection, countOk)
        /\ memOp' = [memOp EXCEPT !.op = "cleanup", !.faultFree = @ /\ countOk]
    /\ cleaner' = "idle"
    /\ UNCHANGED <<sanVars, abandonedAt, turnVars, apiVars, genVars, collection, producedIds,
                   schemaVars, now>>

\* time passes
Tick ==
    /\ now < MaxTime
    /\ now' = now + 1
    /\ UNCHANGED <<sanVars, callVars, genVars, memVars, schemaVars>>

(***************************************************************************)
(* SchemaService.  The engine holds a fixed catalog tree; every statement  *)
(* the refresh issues may fail.  A snapshot is the set of its tables, each *)
(* with its columns and statistics: a catalog or schema key exists in the  *)
(* dict only once one of its tables was added (lines 66-69).               *)
(***************************************************************************)
\* settings.SCHEMA_CACHE_TTL, read from the environment; here 3 ticks
SCHEMA_CACHE_TTL == 3

Catalogs == <<"c1", "c2">>

SchemasOf(catalog) ==
    IF catalog = "c1" THEN <<"information_schema", "s1">> ELSE <<"s2">>

TablesOf(catalog, schema) ==
    IF catalog = "c1" /\ schema = "s1" THEN <<"t1", "t2">>
    ELSE IF catalog = "c2" /\ schema = "s2" THEN <<"t3">>
    ELSE <<"tables">>

SystemSchemas == {"information_schema", "sys"}

ShowCatalogs == <<"SHOW CATALOGS", "", "", "">>
ShowSchemas(c) == <<"SHOW SCHEMAS FROM", c, "", "">>
ShowTables(c, s) == <<"SHOW TABLES FROM", c, s, "">>
Describe(c, s, t) == <<"DESCRIBE", c, s, t>>
CountRows(c, s, t) == <<"SELECT count(*) FROM", c, s, t>>

RECURSIVE SeqToSet(_)
SeqToSet(q) == IF q = <<>> THEN {} ELSE {Head(q)} \cup SeqToSet(Tail(q))

AllTables ==
    UNION {UNION {{<<c, sc, t>> : t \in SeqToSet(TablesOf(c, sc))} :
                    sc \in SeqToSet(SchemasOf(c)) \ SystemSchemas} :
              c \in SeqToSet(Catalogs)}

Statements ==
    {ShowCatalogs}
        \cup {ShowSchemas(c) : c \in SeqToSet(Catalogs)}
        \cup {ShowTables(p[1], p[2]) : p \in AllTables}
        \cup {Describe(p[1], p[2], p[3]) : p \in AllTables}
        \cup {CountRows(p[1], p[2], p[3]) : p \in AllTables}

FailureSets == {f \in SUBSET Statements : Cardinality(f) <= MaxFailures}

\* _get_table_statistics: {} when the count query fails
TableStatistics(c, s, t, fails) ==
    IF CountRows(c, s, t) \in fails THEN "unknown" ELSE "row_count"

TableEntry(c, s, t, fails) ==
    [catalog |-> c, schema |-> s, table |-> t, statistics |-> TableStatistics(c, s, t, fails)]

\* lines 57-78: the tables of one schema; a failing DESCRIBE leaves the loop
RECURSIVE FetchTables(_, _, _, _, _)
FetchTables(c, s, tables, acc, fails) ==
    IF tables = <<>> THEN acc
    ELSE LET t == Head(tables)
         IN IF Describe(c, s, t) \in fails
            THEN [acc EXCEPT !.stmts = Append(@, Describe(c, s, t))]
            ELSE FetchTables(c, s, Tail(tables),
                             [acc EXCEPT !.info = @ \cup {TableEntry(c, s, t, fails)},
                                         !.stmts = @ \o <<Describe(c, s, t), CountRows(c, s, t)>>],
                             fails)

\* lines 42-82: the schemas of one catalog; a failing SHOW TABLES skips the schema
RECURSIVE FetchSchemas(_, _, _, _)
FetchSchemas(c, schemas, acc, fails) ==
    IF schemas = <<>> THEN acc
    ELSE LET s == Head(schemas)
             asked == [acc EXCEPT !.stmts = Append(@, ShowTables(c, s))]
         IN IF s \in SystemSchemas THEN FetchSchemas(c, Tail(schemas), acc, fails)
            ELSE IF ShowTables(c, s) \in fails THEN FetchSchemas(c, Tail(schemas), asked, fails)
            ELSE FetchSchemas(c, Tail(schemas),
                              FetchTables(c, s, TablesOf(c, s), asked, fails), fails)

\* lines 36-88: the catalogs; a failing SHOW SCHEMAS ends the refresh with
\* what was collected so far
RECURSIVE FetchCatalogs(_, _, _)
FetchCatalogs(catalogs, acc, fails) ==
    IF catalogs = <<>> THEN acc
    ELSE LET c == Head(catalogs)
             asked == [acc EXCEPT !.stmts = Append(@, ShowSchemas(c))]
         IN IF ShowSchemas(c) \in fails THEN [asked EXCEPT !.failed = TRUE]
            ELSE FetchCatalogs(Tail(catalogs), FetchSchemas(c, SchemasOf(c), asked, fails), fails)

\* _fetch_schema: the dict it returns, the statements it issued, and whether
\* the outer except clause was taken
fetch_schema(fails) ==
    IF ShowCatalogs \in fails
    THEN [info |-> {}, stmts |-> <<ShowCatalogs>>, failed |-> TRUE]
    ELSE FetchCatalogs(Catalogs, [info |-> {}, stmts |-> <<ShowCatalogs>>, failed |-> FALSE],
                       fails)

\* mutant: the cache expires already when its age equals the TTL
RefreshDueAtTTL(force_refresh, current_time) ==
    \/ force_refresh
    \/ schema_cache = {}
    \/ current_time - schema_cache_timestamp >= SCHEMA_CACHE_TTL

\* lines 15-17: the condition under which get_database_schema refreshes
RefreshDue(force_refresh, current_time) ==
    \/ force_refresh
    \/ schema_cache = {}
    \/ current_time - schema_cache_timestamp > SCHEMA_CACHE_TTL

get_database_schema ==
    /\ \E force_refresh \in BOOLEAN, fails \in FailureSets :
        LET current_time == now
            fetched == fetch_schema(fails)
        IN IF RefreshDue(force_refresh, current_time)
           THEN /\ schema_cache' = fetched.info
                /\ schema_cache_timestamp' = current_time
                /\ schemaOp' = [op |-> "get", force |-> force_refresh, time |-> current_time,
                                before |-> schema_cache, beforeTs |-> schema_cache_timestamp,
                                refreshed |-> TRUE, failed |-> fetched.failed,
                                failures |-> fails \cap SeqToSet(fetched.stmts),
                                stmts |-> fetched.stmts, result |-> fetched.info]
           ELSE /\ UNCHANGED <<schema_cache, schema_cache_timestamp>>
                /\ schemaOp' = [op |-> "get", force |-> force_refresh, time |-> current_time,
                                before |-> schema_cache, beforeTs |-> schema_cache_timestamp,
                                refreshed |-> FALSE, failed |-> FALSE,
                                failures |-> {},
                                stmts |-> <<>>, result |-> schema_cache]
    /\ UNCHANGED <<sanVars, callVars, genVars, memVars, now, threads>>

\* time passes for the schema cache
ClockAdvances ==
    /\ now < MaxClock
    /\ now' = now + 1
    /\ UNCHANGED <<sanVars, callVars, genVars, memVars, schemaVars>>

(***************************************************************************)
(* get_database_schema called by overlapping requests.  The service is one *)
(* process-wide object (main.py 40) and the method takes no lock, so the   *)
(* calls interleave at its statements: each request has its own            *)
(* current_time and, inside _fetch_schema, its own dict schema_info;       *)
(* schema_cache and schema_cache_timestamp are shared.                     *)
(***************************************************************************)
Requests == {"r1", "r2"}

\* what may fail during a scan made by one of the overlapping calls
ScanFailures == {{}, {ShowSchemas("c2")}}

IdleRequest == [pc |-> "idle", force_refresh |-> FALSE, current_time |-> 0, fails |-> {},
                schema_info |-> {}, returned |-> {}, inFlight |-> {}]

\* the position of table entry e in the scan
ScanPosition(e, fails) ==
    CHOOSE i \in 1..Len(fetch_schema(fails).stmts) :
        fetch_schema(fails).stmts[i] = Describe(e.catalog, e.schema, e.table)

\* lines 66-78: the entry the scan adds next to its dict
NextEntry(schema_info, fails) ==
    CHOOSE e \in fetch_schema(fails).info \ schema_info :
        \A f \in fetch_schema(fails).info \ schema_info :
            ScanPosition(e, fails) <= ScanPosition(f, fails)

\* mutant: the scan fills the shared attribute in place
CacheFilledInPlace(cache, schema_info) == schema_info

\* self.schema_cache after a step of _fetch_schema: the scan fills its local
\* dict (line 26) and does not touch the attribute
CacheDuringFetch(cache, schema_info) == cache

\* lines 14-17: read the clock and test the refresh condition
GdsEnter(r) ==
    /\ threads[r].pc = "idle"
    /\ \E force_refresh \in BOOLEAN, fails \in ScanFailures :
        threads' = [threads EXCEPT ![r] =
            [pc |-> IF RefreshDue(force_refresh, now) THEN "fetch" ELSE "return",
             force_refresh |-> force_refresh, current_time |-> now, fails |-> fails,
             schema_info |-> {}, returned |-> {}, inFlight |-> {}]]
    /\ UNCHANGED <<sanVars, callVars, genVars, memVars, now, schema_cache, schema_cache_timestamp,
                   schemaOp>>

\* lines 26-90: one more table entered into schema_info, or the return of
\* _fetch_schema once the scan is over
GdsFetch(r) ==
    /\ threads[r].pc = "fetch"
    /\ IF threads[r].schema_info = fetch_schema(threads[r].fails).info
       THEN /\ threads' = [threads EXCEPT ![r].pc = "assign_cache"]
            /\ UNCHANGED schema_cache
       ELSE LET filled == threads[r].schema_info
                              \cup {NextEntry(threads[r].schema_info, threads[r].fails)}
            IN /\ threads' = [threads EXCEPT ![r].schema_info = filled]
               /\ schema_cache' = CacheDuringFetch(schema_cache, filled)
    /\ UNCHANGED <<sanVars, callVars, genVars, memVars, now, schema_cache_timestamp, schemaOp>>

\* line 19: self.schema_cache = <the dict _fetch_schema returned>
GdsAssignCache(r) ==
    /\ threads[r].pc = "assign_cache"
    /\ schema_cache' = threads[r].schema_info
    /\ threads' = [threads EXCEPT ![r].pc = "assign_timestamp"]
    /\ UNCHANGED <<sanVars, callVars, genVars, memVars, now, schema_cache_timestamp, schemaOp>>

\* line 20: self.schema_cache_timestamp = current_time
GdsAssignTimestamp(r) ==
    /\ threads[r].pc = "assign_timestamp"
    /\ schema_cache_timestamp' = threads[r].current_time
    /\ threads' = [threads EXCEPT ![r].pc = "return"]
    /\ UNCHANGED <<sanVars, callVars, genVars, memVars, now, schema_cache, schemaOp>>

\* line 22: return self.schema_cache; inFlight keeps the dicts that other
\* calls were filling at the moment of the read
GdsReturn(r) ==
    /\ threads[r].pc = "return"
    /\ threads' = [threads EXCEPT ![r] =
            [IdleRequest EXCEPT
                !.returned = schema_cache,
                !.inFlight = {threads[o].schema_info :
                                 o \in {q \in Requests \ {r} : threads[q].pc = "fetch"}}]]
    /\ UNCHANGED <<sanVars, callVars, genVars, memVars, now, schema_cache, schema_cache_timestamp,
                   schemaOp>>

(***************************************************************************)
(* AIService, the multi-turn path.  analyze_with_context opens a round of  *)
(* questions and continue_analysis merges the user's answer into           *)
(* analysis_context, an attribute of the AIService object.  The methods    *)
(* are coroutines that await one another, so the probe yields its bool and *)
(* an exception of query_model travels up to the except clause of the      *)
(* method the caller awaited.  Calls are resolved by their signature: the  *)
(* one-argument query_model and analyze_results of lines 253-293.          *)
(***************************************************************************)
Sessions == {"s1", "s2"}

RequiredFields == {"time_period", "scope", "metrics"}

\* mutant: the reset leaves a table in the context
FreshContextWithTable ==
    [user_type |-> PyNone, time_period |-> PyNone, scope |-> PyNone, metrics |-> PyList(<<>>),
     tables |-> PyList(<<"orders">>), columns |-> PyList(<<>>), relationships |-> PyList(<<>>)]

\* lines 17-25 and 175-183
FreshContext ==
    [user_type |-> PyNone, time_period |-> PyNone, scope |-> PyNone, metrics |-> PyList(<<>>),
     tables |-> PyList(<<>>), columns |-> PyList(<<>>), relationships |-> PyList(<<>>)]

\* what the model may extract for a field
FieldValues(field) ==
    IF field = "time_period" THEN {PyNone, PyStr(<<"2024">>)}
    ELSE IF field = "scope" THEN {PyStr(<<"sales">>)}
    ELSE {PyList(<<>>), PyList(<<"revenue">>)}

NoUpdate == [field \in {} |-> PyNone]

\* JSON objects with keys that are not required fields: one with a table
\* list (columns and relationships are lists handled the same way) and a
\* key the context does not have, and one with a user type
OtherObjects ==
    {[key \in {"tables", "limit"} |->
         IF key = "tables" THEN PyList(<<"orders">>) ELSE PyStr(<<"10">>)],
     [key \in {"user_type"} |-> PyStr(<<"b">>)]}

\* the JSON objects the model may answer with: values for some of the
\* required fields, or one of the other objects
ContextObjects ==
    UNION {{u \in [fields -> UNION {FieldValues(f) : f \in RequiredFields}] :
                \A f \in fields : u[f] \in FieldValues(f)} : fields \in SUBSET RequiredFields}
        \cup OtherObjects

\* the "response" text of the model read as JSON: an object, or text that
\* json.loads rejects
ContextBodies ==
    {[format |-> "text", value |-> NoUpdate]}
        \cup {[format |-> "object", value |-> u] : u \in ContextObjects}

\* status of the HTTP answer of POST /api/generate
HttpKinds == {"ok", "status", "exception"}

\* async query_model(prompt), lines 253-270: the "response" field on 200;
\* "Model query failed" and any transport failure are raised again
query_model_async(kind, body) == [raised |-> kind # "ok", value |-> body]

\* str.lower() over the letters used here
Lower(text) ==
    [i \in 1..Len(text) |-> IF text[i] = "T" THEN "t" ELSE IF text[i] = "B" THEN "b" ELSE text[i]]

UserTypeReplies == {<<"T">>, <<WS, "b">>}

\* lines 76-89: response.lower().strip()
determine_user_type(kind, reply) ==
    LET response == query_model_async(kind, reply)
    IN [raised |-> response.raised, value |-> PyStr(Strip(Lower(response.value)))]

\* the statements of the async get_database_schema (lines 38-74): the
\* tables query and, for the one table found, its columns query; whatever
\* fails, the method returns {}
TablesQuery == <<"SELECT table_schema, table_name FROM information_schema.tables">>
ColumnsQuery == <<"SELECT column_name, data_type FROM information_schema.columns">>

SchemaQueries(o) == IF o = "rows" THEN <<TablesQuery, ColumnsQuery>> ELSE <<TablesQuery>>

\* lines 133-140: the model's answer is parsed and merged; whatever
\* json.loads or dict.update raises is swallowed
MergeContext(context, body) ==
    IF body.format = "object"
    THEN [f \in DOMAIN context \cup DOMAIN body.value |->
             IF f \in DOMAIN body.value THEN body.value[f] ELSE context[f]]
    ELSE context

\* mutant: one required field is enough
is_context_complete_any(context) == \E field \in RequiredFields : Truthy(context[field])

\* lines 142-145: all(self.analysis_context.get(field) for field in required_fields)
is_context_complete(context) == \A field \in RequiredFields : Truthy(context[field])

NoTurnOp == [op |-> "none", session |-> "none", status |-> "none", available |-> TRUE,
             update |-> NoUpdate, raised |-> "none", modelCalls |-> 0,
             engineCalls |-> <<>>, sql |-> NoText]

\* where the caller stands after the call: a round of questions is open, or
\* the analysis was delivered; an error leaves it where it was
PhaseAfter(s, status) ==
    IF status = "questions" THEN "gathering"
    ELSE IF status = "complete" THEN "complete"
    ELSE sessions[s]

TurnReturn(s, context, op) ==
    /\ analysis_context' = context
    /\ turnOp' = op
    /\ sessions' = [sessions EXCEPT ![s] = PhaseAfter(s, op.status)]
    /\ UNCHANGED <<sanVars, abandonedAt, apiVars, cleaner, genVars, memVars, schemaVars, now>>

\* lines 91-115, called at 197 and 236: the schema queries, then the model
\* is asked for questions; its answer is parsed or replaced by the defaults
TurnQuestions(s, context, op) ==
    \E engine \in EngineOutcomes, kind \in HttpKinds :
        LET asked == [op EXCEPT !.engineCalls = SchemaQueries(engine), !.modelCalls = @ + 1]
            response == query_model_async(kind, <<>>)
        IN IF response.raised
           THEN TurnReturn(s, context, [asked EXCEPT !.status = "error", !.raised = "query_model"])
           ELSE TurnReturn(s, context, [asked EXCEPT !.status = "questions"])

\* lines 164-204
analyze_with_context(s) ==
    LET op == [NoTurnOp EXCEPT !.op = "analyze_with_context", !.session = s,
                               !.available = ollamaUp]
    IN IF ~Truthy(check_ollama_availability)
       THEN TurnReturn(s, analysis_context, [op EXCEPT !.status = "error"])
       ELSE \E kind \in HttpKinds, reply \in UserTypeReplies :
                LET user_type == determine_user_type(kind, reply)
                IN IF user_type.raised
                   THEN TurnReturn(s, FreshContext,
                                   [op EXCEPT !.status = "error", !.raised = "query_model",
                                              !.modelCalls = 1])
                   ELSE TurnQuestions(s, [FreshContext EXCEPT !.user_type = user_type.value],
                                      [op EXCEPT !.modelCalls = 1])

GeneratedSql == <<"SELECT revenue">>

\* lines 272-293, called at 225: the one-argument analyze_results asks the
\* model and stores nothing
TurnAnalyse(s, context, op, sql_query) ==
    \E kind \in HttpKinds :
        LET analysis == query_model_async(kind, TextY)
            analysed == [op EXCEPT !.modelCalls = @ + 1]
        IN IF analysis.raised
           THEN TurnReturn(s, context, [analysed EXCEPT !.status = "error", !.raised = "query_model"])
           ELSE TurnReturn(s, context, [analysed EXCEPT !.status = "complete", !.sql = sql_query])

\* lines 219-232: the SQL is generated and executed and its result analysed
TurnComplete(s, context, op) ==
    \E kind \in HttpKinds :
        LET sql_query == query_model_async(kind, GeneratedSql)
            generated == [op EXCEPT !.modelCalls = @ + 1]
            executed == [generated EXCEPT !.engineCalls = <<sql_query.value>>]
        IN IF sql_query.raised
           THEN TurnReturn(s, context, [generated EXCEPT !.status = "error", !.raised = "query_model"])
           ELSE \E engine \in EngineOutcomes :
                    IF engine = "raise"
                    THEN TurnReturn(s, context,
                                    [executed EXCEPT !.status = "error", !.raised = "execute_query"])
                    ELSE TurnAnalyse(s, context, executed, sql_query.value)

\* lines 206-251
continue_analysis(s) ==
    /\ sessions[s] # "idle"
    /\ LET op == [NoTurnOp EXCEPT !.op = "continue_analysis", !.session = s,
                                  !.available = ollamaUp]
       IN IF ~Truthy(check_ollama_availability)
          THEN TurnReturn(s, analysis_context, [op EXCEPT !.status = "error"])
          ELSE \E kind \in HttpKinds, body \in ContextBodies :
                   LET response == query_model_async(kind, body)
                       context == MergeContext(analysis_context, response.value)
                       updated == [op EXCEPT !.modelCalls = 1, !.update = response.value.value]
                   IN IF response.raised
                      THEN TurnReturn(s, analysis_context,
                                      [op EXCEPT !.status = "error", !.raised = "query_model",
                                                 !.modelCalls = 1])
                      ELSE IF is_context_complete(context)
                      THEN TurnComplete(s, context, updated)
                      ELSE TurnQuestions(s, context, updated)

(***************************************************************************)
(* The /analyze request path of main.py and the permission table of        *)
(* IAMService.  The work of a request is recorded as the service calls the *)
(* handler makes, in order; what happens inside generate_query is the      *)
(* AIService model above.                                                  *)
(***************************************************************************)
\* roles a token may carry: the two the table names, the default role of
\* create_user, and one more
Roles == {"admin", "analyst", "user", "guest"}

\* IAMService._load_permissions, lines 22-40
Permissions ==
    [resource \in {"ai-analytics", "users", "settings"} |->
        IF resource = "ai-analytics"
        THEN [view |-> {"admin", "analyst"}, edit |-> {"admin"}, delete |-> {"admin"}]
        ELSE IF resource = "users"
        THEN [view |-> {"admin"}, edit |-> {"admin"}, delete |-> {"admin"}]
        ELSE [view |-> {"admin"}, edit |-> {"admin"}]]

\* mutant: an action the resource does not list is allowed
check_permission_unlisted_allowed(user_role, resource, action) ==
    IF resource \notin DOMAIN Permissions THEN FALSE
    ELSE IF action \notin DOMAIN Permissions[resource] THEN TRUE
    ELSE user_role \in Permissions[resource][action]

\* IAMService.check_permission, lines 165-180
check_permission(user_role, resource, action) ==
    IF resource \notin DOMAIN Permissions THEN FALSE
    ELSE IF action \notin DOMAIN Permissions[resource] THEN FALSE
    ELSE user_role \in Permissions[resource][action]

NoApiOp == [role |-> "none", allowed |-> FALSE, status |-> "none", work |-> <<>>]

NoPermOp == [role |-> "none", resource |-> "none", action |-> "none", allowed |-> FALSE]

\* the request bodies: not JSON, JSON without a question, JSON with one
RequestBodies == {"invalid", "empty", "question"}

\* POST /analyze, main.py lines 237-320.  The calls after the permission
\* check may each raise; line 292 passes two arguments to analyze_results,
\* whose definitions take one (ai_service.py 272) and three (490), so that
\* call raises before a statement of the method runs
analyze_data ==
    /\ \E role \in Roles, body \in RequestBodies,
          schemaOk \in BOOLEAN, generateOk \in BOOLEAN, executeOk \in BOOLEAN :
        LET allowed == check_permission(role, "ai-analytics", "view")
            request == [NoApiOp EXCEPT !.role = role, !.allowed = allowed]
        IN apiOp' =
            IF ~allowed THEN [request EXCEPT !.status = "403"]
            ELSE IF body = "invalid" THEN [request EXCEPT !.status = "500"]
            ELSE IF body = "empty" THEN [request EXCEPT !.status = "400"]
            ELSE IF ~schemaOk
            THEN [request EXCEPT !.status = "500", !.work = <<"get_schema_context">>]
            ELSE IF ~generateOk
            THEN [request EXCEPT !.status = "500",
                                 !.work = <<"get_schema_context", "generate_query">>]
            ELSE [request EXCEPT !.status = "500",
                                 !.work = <<"get_schema_context", "generate_query",
                                            "execute_query">>]
    /\ UNCHANGED <<sanVars, abandonedAt, turnVars, permOp, cleaner, genVars, memVars, schemaVars, now>>

\* check_permission as the other handlers and any caller may call it
CheckPermission ==
    /\ \E role \in Roles, resource \in DOMAIN Permissions \cup {"reports"},
          action \in {"view", "edit", "delete", "export"} :
        permOp' = [role |-> role, resource |-> resource, action |-> action,
                   allowed |-> check_permission(role, resource, action)]
    /\ UNCHANGED <<sanVars, abandonedAt, turnVars, apiOp, cleaner, genVars, memVars, schemaVars, now>>

(***************************************************************************)
(* Initial states and specifications.                                      *)
(***************************************************************************)
NoSchemaOp == [op |-> "none", force |-> FALSE, time |-> 0, before |-> {}, beforeTs |-> 0,
               refreshed |-> FALSE, failed |-> FALSE, failures |-> {}, stmts |-> <<>>,
               result |-> {}]

SanIdle == rawInput = NoText /\ cleaned = NoText

\* AIService.__init__ (lines 17-25); no conversation is open
TurnIdle ==
    /\ analysis_context = FreshContext
    /\ sessions = [s \in Sessions |-> "idle"]
    /\ turnOp = NoTurnOp

ApiIdle == apiOp = NoApiOp /\ permOp = NoPermOp /\ cleaner = "idle"

\* no caller goes away
CallIdle == abandonedAt = 0 /\ TurnIdle /\ ApiIdle

GenIdle ==
    /\ genCalls = 0
    /\ ollamaAtCall = TRUE
    /\ modelCalls = <<>>
    /\ engineCalls = <<>>
    /\ engineResults = <<>>
    /\ memLookups = <<>>
    /\ memWrites = <<>>
    /\ returned = NoText
    /\ outcome = "none"

\* MemoryService.__init__: the collection as found on disk, counted
MemIdle ==
    /\ collection = {}
    /\ memory_count = 0
    /\ producedIds = {}
    /\ memOp = NoMemOp

\* SchemaService.__init__
SchemaIdle ==
    /\ schema_cache = {}
    /\ schema_cache_timestamp = 0
    /\ schemaOp = NoSchemaOp
    /\ threads = [r \in Requests |-> IdleRequest]

InitSan == SanInit /\ ollamaUp = TRUE /\ GenIdle /\ MemIdle /\ SchemaIdle /\ now = 1 /\ CallIdle

NextSan == Sanitize /\ UNCHANGED <<callVars, genVars, memVars, schemaVars, now>>

SpecSan == InitSan /\ [][NextSan]_vars

InitGen == SanIdle /\ ollamaUp \in BOOLEAN /\ GenIdle /\ MemIdle /\ SchemaIdle /\ now = 1 /\ CallIdle

NextGen == generate_query \/ analyze_results \/ OllamaChanges

SpecGen == InitGen /\ [][NextGen]_vars

\* generate_query calls whose caller goes away during one of the calls of
\* the retry loop
InitCancel ==
    /\ SanIdle /\ ollamaUp = TRUE /\ GenIdle /\ MemIdle /\ SchemaIdle /\ now = 1
    /\ abandonedAt \in 1..MaxAbandon
    /\ TurnIdle /\ ApiIdle

NextCancel == generate_query

SpecCancel == InitCancel /\ [][NextCancel]_vars

InitTurn == SanIdle /\ ollamaUp \in BOOLEAN /\ GenIdle /\ MemIdle /\ SchemaIdle /\ now = 1 /\ CallIdle

NextTurn ==
    \/ \E s \in Sessions : analyze_with_context(s)
    \/ \E s \in Sessions : continue_analysis(s)
    \/ OllamaChanges

SpecTurn == InitTurn /\ [][NextTurn]_vars

InitApi == SanIdle /\ ollamaUp = TRUE /\ GenIdle /\ MemIdle /\ SchemaIdle /\ now = 1 /\ CallIdle

NextApi == analyze_data \/ CheckPermission

SpecApi == InitApi /\ [][NextApi]_vars

InitMem == SanIdle /\ ollamaUp = TRUE /\ GenIdle /\ MemIdle /\ SchemaIdle /\ now = 1 /\ CallIdle

NextMem == store_conversation \/ recall_memories \/ cleanup_old_memories \/ Tick

SpecMem == InitMem /\ [][NextMem]_vars

\* the memory operations with a cleanup that other calls may overlap
NextMemConc ==
    \/ store_conversation
    \/ recall_memories
    \/ CleanupDelete
    \/ CleanupUpdateStats
    \/ Tick

SpecMemConc == InitMem /\ [][NextMemConc]_vars

InitSchema == SanIdle /\ ollamaUp = TRUE /\ GenIdle /\ MemIdle /\ SchemaIdle /\ now = 1 /\ CallIdle

NextSchema == get_database_schema \/ ClockAdvances

SpecSchema == InitSchema /\ [][NextSchema]_vars

NextSchemaConc ==
    \/ \E r \in Requests : GdsEnter(r)
    \/ \E r \in Requests : GdsFetch(r)
    \/ \E r \in Requests : GdsAssignCache(r)
    \/ \E r \in Requests : GdsAssignTimestamp(r)
    \/ \E r \in Requests : GdsReturn(r)
    \/ ClockAdvances

SpecSchemaConc == InitSchema /\ [][NextSchemaConc]_vars


(***************************************************************************)
(* Properties.                                                             *)
(***************************************************************************)
AnalysisOutcomes == {"analysis", "analysis_raised", "analysis_unavailable"}

\* the last AIService call was a generate_query
GenReturned == outcome \notin {"none"} \cup AnalysisOutcomes

\* store_conversation raised inside generate_query
StoreFailed == outcome = "raised"

\* the text holds no code-fence marker (three backticks) anywhere
NoFence(text) == ~ContainsSeq(text, FenceClose)

\* every model call answered with generated text, and every text contains ':'
AllForbidden(calls) ==
    \A i \in 1..Len(calls) : calls[i] \in GenTexts /\ Contains(calls[i], ":")

\* C1: when every model output of a generate_query call contains ':', the
\* call makes exactly 3 model calls and returns the exhaustion error.
C1_RetryBound ==
    (GenReturned /\ modelCalls # <<>> /\ AllForbidden(modelCalls))
        => (Len(modelCalls) = 3 /\ returned = InvalidCharacters)

\* C2: when the model endpoint is down, generate_query returns the Ollama
\* placeholder and makes no engine call, no model call and no memory write.
C2_DegradedModel ==
    (GenReturned /\ ~ollamaAtCall)
        => (/\ returned = OllamaUnavailable
            /\ engineCalls = <<>>
            /\ modelCalls = <<>>
            /\ memWrites = <<>>)

\* C3: when the model endpoint is up and the engine probe SELECT 1 answers
\* an error result or raises, generate_query returns the Trino placeholder
\* after the probe alone: no model call, no memory lookup, no memory write.
C3_DegradedEngine ==
    (GenReturned /\ ollamaAtCall /\ engineResults # <<>>
       /\ engineResults[1] \in {"error", "raise"})
        => (/\ returned = TrinoUnavailable
            /\ engineCalls = <<ProbeQuery>>
            /\ modelCalls = <<>>
            /\ memLookups = <<>>
            /\ memWrites = <<>>)

C3_Witness ==
    /\ outcome = "trino_unavailable"
    /\ ollamaAtCall
    /\ memLookups = <<>>
    /\ engineCalls = <<ProbeQuery>>
    /\ engineResults = <<"error">>

\* C4: a get_database_schema call whose refresh fails returns the
\* pre-refresh snapshot and leaves it installed in schema_cache.
C4_RefreshAtomicity ==
    (schemaOp.op = "get" /\ schemaOp.refreshed /\ schemaOp.failed)
        => (schemaOp.result = schemaOp.before /\ schema_cache = schemaOp.before)

\* C5: with a non-empty snapshot and force_refresh false, a call within the
\* TTL returns the cached snapshot with no engine statement and leaves cache
\* and timestamp alone; a call after the TTL runs exactly one refresh
\* sequence; and a refresh happens only when forced, on an empty cache, or
\* after the TTL.
C5_CacheTTL ==
    schemaOp.op = "get" =>
        LET age == schemaOp.time - schemaOp.beforeTs
            cached == schemaOp.before # {} /\ ~schemaOp.force
        IN /\ (cached /\ age <= SCHEMA_CACHE_TTL)
                => (/\ ~schemaOp.refreshed
                    /\ schemaOp.stmts = <<>>
                    /\ schemaOp.result = schemaOp.before
                    /\ schema_cache = schemaOp.before
                    /\ schema_cache_timestamp = schemaOp.beforeTs)
           /\ (cached /\ age > SCHEMA_CACHE_TTL)
                => (/\ schemaOp.refreshed
                    /\ Cardinality({i \in 1..Len(schemaOp.stmts) :
                                       schemaOp.stmts[i] = ShowCatalogs}) = 1
                    /\ schema_cache_timestamp = schemaOp.time)
           /\ schemaOp.refreshed
                => (schemaOp.force \/ schemaOp.before = {} \/ age > SCHEMA_CACHE_TTL)

C5_Witness ==
    /\ schemaOp.op = "get"
    /\ schemaOp.before # {}
    /\ ~schemaOp.force
    /\ schemaOp.refreshed
    /\ schemaOp.time - schemaOp.beforeTs = SCHEMA_CACHE_TTL + 1

\* C6: get_relevant_memories(q, k) does not raise and returns at most
\* min(k, n) records, n being the number of records stored.
C6_RecallBound ==
    memOp.op = "get" =>
        (~memOp.raised /\ Len(memOp.result) <= Min(memOp.k, memOp.stored))

C6_Witness ==
    /\ memOp.op = "get"
    /\ memOp.stored = 2
    /\ memOp.k = 1
    /\ Len(memOp.result) = 1

\* the first output has no ':' and no code fence, and its test execution succeeded
FirstAttemptPasses ==
    /\ GenReturned /\ ~StoreFailed
    /\ Len(modelCalls) >= 1
    /\ ~Contains(modelCalls[1], ":")
    /\ NoFence(modelCalls[1])
    /\ Len(engineResults) >= 2
    /\ engineResults[2] = "rows"

OneValidRecord ==
    /\ Len(memWrites) = 1
    /\ memWrites[1].metadata.validation_status = "valid"
    /\ memWrites[1].response = returned

C9_EmptyMemory ==
    memOp.op = "get" =>
        /\ memOp.stored = 0 => memOp.result = <<>>
        /\ memOp.result = <<>> => memOp.formatted = <<>>

C9_Witness ==
    /\ memOp.op = "get"
    /\ memOp.stored = 0
    /\ memOp.k = 3
    /\ memOp.result = <<>>
    /\ memOp.formatted = <<>>

\* C10: the clean-up step leaves an already clean string unchanged.
C10_SanitizationIdempotence ==
    (cleaned # NoText /\ IsClean(rawInput)) => cleaned = rawInput

C10_Witness ==
    /\ cleaned # NoText
    /\ IsClean(rawInput)
    /\ Len(rawInput) = MaxLen
    /\ Contains(rawInput, BT)
    /\ cleaned = rawInput

\* the last memory operation was a store_conversation that returned an id,
\* and no chromadb call has failed so far
StoreReturned == memOp.op = "store" /\ ~memOp.raised /\ memOp.faultFree

\* the ids of the records stored
StoredIds == {r.id : r \in collection}

\* C19: the id a store_conversation call returns differs from the id of
\* every record stored when it is called and from every id produced by an
\* earlier store_conversation call (stated here for the runs in which no
\* chromadb call has failed; a step that sets memOp and leaves the clock
\* alone is a memory operation).
C19_IdsUnique ==
    [][(now' = now /\ StoreReturned') => memOp'.id \notin (producedIds \cup StoredIds)]_vars

\* C20: when store_conversation returns an id (no chromadb call having
\* failed, the metadata being a dict or None), memory_count counts the new
\* record and every get_relevant_memories with k at least the store size,
\* answered by the store, returns that record.
C20_ReadYourWrite ==
    (StoreReturned /\ memOp.record.metadata.form # "raw")
        => (/\ memory_count = memOp.stored + 1
            /\ \A k \in Cardinality(collection)..MaxK :
                  \A r \in get_relevant_memories(k, TRUE) :
                      \E i \in 1..Len(r.result) : r.result[i] = MemoryOf(memOp.record))

\* the tables of a snapshot
TablesIn(snapshot) == {<<e.catalog, e.schema, e.table>> : e \in snapshot}

\* the statements about single tables
TableStatements ==
    {Describe(p[1], p[2], p[3]) : p \in AllTables}
        \cup {CountRows(p[1], p[2], p[3]) : p \in AllTables}

\* C15: when the statements that fail during a refresh are DESCRIBE or
\* row-count statements only, every table whose DESCRIBE did not fail is in
\* the resulting snapshot.
C15_PerTableTolerance ==
    (schemaOp.op = "get" /\ schemaOp.refreshed /\ schemaOp.failures \subseteq TableStatements)
        => \A p \in AllTables :
              Describe(p[1], p[2], p[3]) \notin schemaOp.failures
                  => p \in TablesIn(schemaOp.result)

\* C16: when the engine is unreachable (the first statement of the refresh
\* fails) get_database_schema returns the previous snapshot, the empty one
\* when none was ever built.
C16_UnreachableKeepsSnapshot ==
    (schemaOp.op = "get" /\ schemaOp.refreshed /\ ShowCatalogs \in schemaOp.failures)
        => (schemaOp.result = schemaOp.before /\ schema_cache = schemaOp.before)

\* the requests whose _fetch_schema scan is running
Scanning == {r \in Requests : threads[r].pc = "fetch"}

\* C17: at most one refresh (one _fetch_schema scan) is in flight at any
\* moment, however the get_database_schema calls overlap.
C17_RefreshCollapsing == Cardinality(Scanning) <= 1

\* the dicts a finished _fetch_schema returns, and the cache before any refresh
CompleteSnapshots == {{}} \cup {fetch_schema(f).info : f \in ScanFailures}

\* C18: schema_cache, and so what any request reads from it, is at every
\* moment a complete snapshot (the one before or the one after a refresh),
\* never the dict a running scan is still filling.
C18_AtomicSwap ==
    /\ schema_cache \in CompleteSnapshots
    /\ \A r \in Requests : threads[r].returned \in CompleteSnapshots

\* a request has read the cache while another one had entered some but not
\* all of its tables
C18_Witness ==
    \E r \in Requests :
        /\ threads[r].pc = "idle"
        /\ threads[r].returned # {}
        /\ \E d \in threads[r].inFlight : d \notin CompleteSnapshots

\* the last statement sent to the engine and its outcome
LastEngineCall == engineCalls[Len(engineCalls)]
LastEngineResult == engineResults[Len(engineResults)]

\* C11: generate_query never raises: it returns a string whatever the model
\* and the engine answer.
C11_NeverRaises == GenReturned => (outcome # "raised" /\ returned # NoText)

\* a generate_query call whose last test execution returned rows
Validated ==
    /\ GenReturned
    /\ Len(engineResults) >= 2
    /\ LastEngineResult = "rows"

\* the last AIService call was an analyze_results to which the model gave a text
AnalysisMade ==
    outcome \in AnalysisOutcomes /\ modelCalls # <<>> /\ modelCalls[1] \in GenTexts

\* C12: a failing memory store (lookup or write) does not fail the request:
\* generate_query returns the SQL it validated, analyze_results returns the
\* analysis text the model gave.
C12_MemoryFailureTolerated ==
    /\ Validated => (outcome = "success" /\ LastEngineCall = TestQuery(returned))
    /\ AnalysisMade => (outcome = "analysis" /\ returned = modelCalls[1])

\* C13: a string returned as success was test-executed in exactly that
\* form, wrapped in the test query, by the most recent engine call, and
\* that call returned no error.
C13_ValidationByExecution ==
    outcome = "success" =>
        /\ Len(engineCalls) >= 2
        /\ Len(engineResults) = Len(engineCalls)
        /\ LastEngineCall = <<"WITH test_query AS (">> \o returned
                                \o <<") SELECT * FROM test_query LIMIT 1">>
        /\ LastEngineResult = "rows"

\* success after a failed first test execution and a corrective model call
C13_Witness ==
    /\ outcome = "success"
    /\ modelCalls = <<TextX, TextPadded>>
    /\ engineResults = <<"rows", "error", "rows">>
    /\ returned = TextX
    /\ engineCalls[3] = TestQuery(TextX)

\* the outcomes of generate_query other than the validated SQL
FailureOutcomes ==
    {"ollama_unavailable", "trino_unavailable", "invalid_chars", "exec_failed", "exec_exception"}

\* C14: a generate_query call that returns a validated SQL calls
\* store_conversation exactly once, with the returned SQL, and adds at most
\* that record; a call with any other outcome makes no store call and
\* leaves the collection and its count as they were.
C14_StoreOnlyOnSuccess ==
    [][(genCalls' = genCalls + 1 /\ outcome' \notin AnalysisOutcomes) =>
          /\ outcome' = "success" =>
                /\ Len(memWrites') = 1
                /\ memWrites'[1].response = returned'
                /\ collection \subseteq collection'
                /\ Cardinality(collection' \ collection) <= 1
                /\ \A r \in collection' \ collection : r.response = returned'
          /\ outcome' \in FailureOutcomes =>
                /\ memWrites' = <<>>
                /\ collection' = collection
                /\ memory_count' = memory_count]_vars

C14_Witness ==
    /\ outcome = "success"
    /\ Len(memWrites) = 1
    /\ \E r \in collection : r.response = returned /\ r.question = memWrites[1].question

\* C25: when the model endpoint is down, analyze_results returns the
\* unavailable message without a model call and without a memory write.
C25_AnalyzerDegraded ==
    (outcome \in AnalysisOutcomes /\ ~ollamaAtCall)
        => (/\ returned = AnalysisUnavailable
            /\ modelCalls = <<>>
            /\ memWrites = <<>>)

\* the test executions of the last generate_query (the engine calls after the probe)
TestExecutions == IF engineCalls = <<>> THEN 0 ELSE Len(engineCalls) - 1

\* the retry loop of the last generate_query has ended: in the validated
\* SQL, in one of the failure results, or, with "raised", in the validated
\* SQL whose store_conversation call then raised
TerminalReached ==
    \/ outcome \in {"success"} \cup FailureOutcomes
    \/ outcome = "raised" /\ TestExecutions >= 1 /\ LastEngineResult = "rows"

\* C30: a generate_query call makes at most 3 model calls and at most 2
\* test executions, whatever the model and the engine answer, and ends in
\* a terminal result.
C30_BoundedAttempts ==
    GenReturned =>
        /\ Len(modelCalls) <= 3
        /\ TestExecutions <= 2
        /\ TerminalReached

\* three model calls and two test executions: ':' first, then a failed test
C30_Witness ==
    /\ GenReturned
    /\ Len(modelCalls) = 3
    /\ Contains(modelCalls[1], ":")
    /\ TestExecutions = 2
    /\ engineResults[2] = "error"
    /\ outcome \in {"success", "exec_failed"}

\* a cleanup_old_memories call has just been made (a call that changes
\* nothing is a stuttering step and needs no check)
CleanupStep ==
    /\ memOp'.op = "cleanup"
    /\ now' = now
    /\ memOp' # memOp \/ collection' # collection

\* the step is the second of two cleanup runs in a row with the same
\* retention window, no chromadb call having failed
SecondCleanup ==
    /\ memOp.op = "cleanup"
    /\ CleanupStep
    /\ memOp'.k = memOp.k
    /\ memOp'.faultFree

LoopCalls == Len(modelCalls) + TestExecutions

\* C27: when the caller goes away during a call of the retry loop, that
\* call is the last model or engine call and no memory record is written.
C27_AbandonedStops ==
    (GenReturned /\ abandonedAt \in 1..LoopCalls) =>
        (LoopCalls <= abandonedAt /\ memWrites = <<>>)

\* the statements of the last multi-turn call that are not schema queries
TurnExecuted ==
    {i \in 1..Len(turnOp.engineCalls) : turnOp.engineCalls[i] \notin {TablesQuery, ColumnsQuery}}

\* time_period and scope are set and metrics is not empty
MinimumFieldsPresent ==
    /\ analysis_context.time_period # PyNone
    /\ analysis_context.scope # PyNone
    /\ analysis_context.metrics # PyList(<<>>)

\* the last continue_analysis answered as the completion rule asks: with
\* the context complete, 'complete' after running the generated SQL, and
\* otherwise 'questions' with no SQL run but the schema queries
CompletionRuleFollowed ==
    IF MinimumFieldsPresent
    THEN /\ turnOp.status = "complete"
         /\ turnOp.sql = GeneratedSql
         /\ turnOp.engineCalls = <<turnOp.sql>>
         /\ turnOp.modelCalls = 3
    ELSE /\ turnOp.status = "questions"
         /\ TurnExecuted = {}

TurnStep == turnOp' # turnOp \/ analysis_context' # analysis_context

\* C23: after continue_analysis has returned 'complete', a further
\* continue_analysis of the same caller sees no time_period, scope or
\* metrics but those its own answer supplies.
C23_ContextDiscarded ==
    [][(/\ turnOp.status = "complete"
        /\ TurnStep
        /\ turnOp'.op = "continue_analysis"
        /\ turnOp'.session = turnOp.session)
          => \A field \in RequiredFields :
                 Truthy(analysis_context'[field]) => field \in DOMAIN turnOp'.update]_vars

\* C24: a multi-turn call of one caller leaves the analysis context of
\* every other caller whose round of questions is open as it was.
C24_RequestIsolation ==
    [][\A s \in Sessions :
          (sessions[s] = "gathering" /\ TurnStep /\ turnOp'.session # s)
              => analysis_context' = analysis_context]_vars

\* C26: every successful analysis stores exactly one memory record: the
\* single-shot analyze_results makes one store_conversation call with the
\* analysis it returns, and a continue_analysis that returns 'complete'
\* adds one record to the collection.
C26_AnalysisStored ==
    [][/\ (genCalls' = genCalls + 1 /\ outcome' = "analysis")
           => (Len(memWrites') = 1 /\ memWrites'[1].response = returned')
       /\ (TurnStep /\ turnOp'.status = "complete")
           => Cardinality(collection' \ collection) = 1]_vars

\* C28: no query_model call raises.
C28_QueryModelNeverRaises == turnOp.raised # "query_model"

\* the roles the table lists for viewing ai-analytics
AnalyticsViewers == {"admin", "analyst"}

\* C29: a POST /analyze request does no work (no schema lookup, generation,
\* execution or analysis) unless the role of its user may view
\* ai-analytics, any other role being answered 403; and check_permission
\* denies an unknown resource, an unknown action and a role that is not
\* listed.
C29_AuthorizationFirst ==
    /\ apiOp.work # <<>> => (apiOp.allowed /\ apiOp.role \in AnalyticsViewers)
    /\ (apiOp.status # "none" /\ apiOp.role \notin AnalyticsViewers)
           => (apiOp.status = "403" /\ apiOp.work = <<>>)
    /\ (/\ permOp.allowed
        /\ permOp.resource \in DOMAIN Permissions
        /\ permOp.action \in DOMAIN Permissions[permOp.resource])
           => permOp.role \in Permissions[permOp.resource][permOp.action]
    /\ (permOp.resource = "reports" \/ permOp.action = "export"
            \/ (permOp.resource = "settings" /\ permOp.action = "delete"))
           => ~permOp.allowed

\* a request of a role that is not listed was answered 403, and
\* check_permission was called for an action the resource does not list
C29_Witness ==
    /\ apiOp.role = "user"
    /\ apiOp.status = "403"
    /\ apiOp.work = <<>>
    /\ permOp.resource = "settings"
    /\ permOp.action = "delete"
    /\ permOp.role = "admin"

\* every model call of the last generate_query answered with generated
\* text that holds no ':' and no code fence
AllClean(calls) ==
    \A i \in 1..Len(calls) :
        calls[i] \in GenTexts /\ ~Contains(calls[i], ":") /\ NoFence(calls[i])

\* every test execution of the last generate_query was rejected by the engine
AllRejected ==
    /\ TestExecutions >= 1
    /\ \A i \in 2..Len(engineResults) : engineResults[i] = "error"

\* C31: with a model that always returns clean SQL and an engine that
\* rejects every test execution, generate_query makes 3 model calls before
\* it returns the exhaustion error.
C31_RetryAfterEveryFailure ==
    (GenReturned /\ modelCalls # <<>> /\ AllClean(modelCalls) /\ AllRejected)
        => (Len(modelCalls) = 3 /\ outcome = "exec_failed")

\* C32: no SQL that generate_query returns as a success contains ':'.
C32_NoColonReturned ==
    (GenReturned /\ outcome = "success") => ~Contains(returned, ":")

\* the candidate has a code-fence marker at its start or at its end
Fenced(query) == StartsWith(query, FenceOpen) \/ EndsWith(query, FenceClose)

\* C34: the code-fence markers are stripped from the model output of every
\* attempt: no candidate is sent to its test execution with a marker at
\* its start or end, and no SQL returned as a success has one.
C34_FencesStrippedEveryAttempt ==
    GenReturned =>
        /\ \A i \in 1..Len(modelCalls) :
               \A j \in 2..Len(engineCalls) :
                   engineCalls[j] = TestQuery(Strip(modelCalls[i]))
                       => ~Fenced(Strip(modelCalls[i]))
        /\ outcome = "success" => ~Fenced(returned)

\* C36: when the model call of analyze_results fails, no memory record
\* carrying the failure text is written.
C36_NoFailureTextStored ==
    (outcome \in AnalysisOutcomes /\ modelCalls # <<>> /\ modelCalls[1] \notin GenTexts)
        => memWrites = <<>>

\* validate_sql_query's list of invalid characters (line 301)
ForbiddenMarkers == {":", ";", "--", "/*", "*/"}

\* C33: a candidate containing ';', '--', '/*' or '*/' is rejected like one
\* containing ':': no SQL that generate_query returns as a success holds
\* any of them.
C33_NoMarkerReturned ==
    (GenReturned /\ outcome = "success")
        => \A marker \in ForbiddenMarkers : ~Contains(returned, marker)

\* C35: get_relevant_memories never asks the index for more neighbours
\* than the collection holds at the time of the query.
C35_NeighboursWithinStore ==
    memOp.op = "get" => Min(memOp.k, memory_count) <= memOp.stored

\* the seven fields of the analysis context
ContextFields ==
    {"user_type", "time_period", "scope", "metrics", "tables", "columns", "relationships"}

\* the context holds its seven fields and all but user_type are empty
ContextReset(context) ==
    /\ DOMAIN context = ContextFields
    /\ context["time_period"] = PyNone
    /\ context["scope"] = PyNone
    /\ \A field \in {"metrics", "tables", "columns", "relationships"} :
           context[field] = PyList(<<>>)

\* an analyze_with_context call has just been made
AnalyzeStep == TurnStep /\ turnOp'.op = "analyze_with_context"

C38_UserTypePreserved ==
    [][(TurnStep /\ turnOp'.op = "continue_analysis") =>
          /\ analysis_context'["user_type"] = analysis_context["user_type"]
          /\ DOMAIN analysis_context' \subseteq ContextFields \cup DOMAIN analysis_context
          /\ turnOp'.update = NoUpdate => analysis_context' = analysis_context]_vars

====
